---- MODULE Spec2Model ----
(***************************************************************************)
(* Model of nav2_navfn_planner::NavfnPlanner (navfn_planner.cpp).          *)
(*                                                                         *)
(* World coordinates are exact rationals <<num, den>> (den > 0, lowest     *)
(* terms) in an integer length unit; the costmap resolution is a whole     *)
(* number of units per cell.  The NavFn solver (navfn.cpp) is not part of  *)
(* the sources at hand: its storage and its propagation follow the design  *)
(* document.                                                               *)
(***************************************************************************)
EXTENDS Integers, Sequences, FiniteSets, TLC

VARIABLES
  costmap2d,       \* the external nav2_costmap_2d::Costmap2D object
  costmap_,        \* NavfnPlanner::costmap_ is set (TRUE) or nullptr (FALSE)
  tolerance_,      \* NavfnPlanner::tolerance_
  use_astar_,      \* NavfnPlanner::use_astar_
  allow_unknown_,  \* NavfnPlanner::allow_unknown_
  planner_,        \* NavfnPlanner::planner_ : Null or the NavFn object
  call,            \* the last call made on the planner, with its results
  crashed          \* the host process has been terminated by a fault

vars == <<costmap2d, costmap_, tolerance_, use_astar_, allow_unknown_,
          planner_, call, crashed>>

(***************************************************************************)
(* Bounds of the model.                                                    *)
(***************************************************************************)
MaxX == 3            \* largest grid width, in cells
MaxY == 2            \* largest grid height, in cells
MaxCells == 4        \* largest number of cells of a grid of a planning run
MaxObstacles == 1    \* largest number of cells that are not free
RES == 4             \* costmap resolution: length units per cell
MaxOrigin == 1       \* origins range over -MaxOrigin .. MaxOrigin
MaxPlanLen == 4      \* longest path handed to smoothApproachToGoal
MaxCoord == 2        \* largest coordinate of a pose of such a path

(***************************************************************************)
(* Program constants.                                                      *)
(***************************************************************************)
FREE_SPACE == 0
LETHAL_OBSTACLE == 254
NO_INFORMATION == 255
POT_HIGH == 1000000  \* the "unreached" sentinel of the potential field
DBL_MAX == 2000000   \* std::numeric_limits<double>::max(), above POT_HIGH

Null == [null |-> TRUE]  \* an empty std::unique_ptr<NavFn>
Unset == -1          \* an output parameter the callee did not write

(***************************************************************************)
(* Exact arithmetic on doubles: rationals <<num, den>>.                    *)
(***************************************************************************)
Abs(n) == IF n < 0 THEN -n ELSE n

RECURSIVE GCD(_, _)
GCD(a, b) == IF b = 0 THEN a ELSE GCD(b, a % b)

Rat(n, d) ==
  LET g == GCD(Abs(n), d) IN <<n \div g, d \div g>>

Q(n) == <<n, 1>>
RatLess(a, b) == a[1] * b[2] < b[1] * a[2]
RatLeq(a, b) == a[1] * b[2] <= b[1] * a[2]
RatAdd(a, b) == Rat(a[1] * b[2] + b[1] * a[2], a[2] * b[2])
RatSub(a, b) == Rat(a[1] * b[2] - b[1] * a[2], a[2] * b[2])
RatMul(a, b) == Rat(a[1] * b[1], a[2] * b[2])

\* std::round of the non-negative quotient num/den: halves round away from 0
Round(num, den) == (2 * num + den) \div (2 * den)

Point(x, y) == [x |-> x, y |-> y]

\* squared_distance(p1, p2) of two poses
squared_distance(p1, p2) ==
  LET dx == RatSub(p1.x, p2.x)
      dy == RatSub(p1.y, p2.y)
  IN  RatAdd(RatMul(dx, dx), RatMul(dy, dy))

(***************************************************************************)
(* The costmap: geometry and a dense row-major cost array.                 *)
(***************************************************************************)
Costmap(sx, sy, ox, oy, res, costs) ==
  [size_x |-> sx, size_y |-> sy, origin_x |-> ox, origin_y |-> oy,
   resolution |-> res, costs |-> costs]

\* worldToMap with the quotient truncated instead of rounded
worldToMap_truncating(cm, wx, wy) ==
  IF RatLess(wx, Q(cm.origin_x)) \/ RatLess(wy, Q(cm.origin_y))
  THEN [ok |-> FALSE, mx |-> Unset, my |-> Unset]
  ELSE LET mx == (wx[1] - cm.origin_x * wx[2]) \div (wx[2] * cm.resolution)
           my == (wy[1] - cm.origin_y * wy[2]) \div (wy[2] * cm.resolution)
       IN  [ok |-> mx < cm.size_x /\ my < cm.size_y, mx |-> mx, my |-> my]

\* NavfnPlanner::worldToMap
worldToMap(cm, wx, wy) ==
  IF RatLess(wx, Q(cm.origin_x)) \/ RatLess(wy, Q(cm.origin_y))
  THEN [ok |-> FALSE, mx |-> Unset, my |-> Unset]
  ELSE LET mx == Round(wx[1] - cm.origin_x * wx[2], wx[2] * cm.resolution)
           my == Round(wy[1] - cm.origin_y * wy[2], wy[2] * cm.resolution)
       IN  [ok |-> mx < cm.size_x /\ my < cm.size_y, mx |-> mx, my |-> my]

\* mapToWorld returning the far corner of the cell instead of its origin
mapToWorld_farCorner(cm, mx, my) ==
  Point(Q(cm.origin_x + (mx + 1) * cm.resolution),
        Q(cm.origin_y + (my + 1) * cm.resolution))

\* NavfnPlanner::mapToWorld
mapToWorld(cm, mx, my) ==
  Point(Q(cm.origin_x + mx * cm.resolution),
        Q(cm.origin_y + my * cm.resolution))

\* NavfnPlanner::clearRobotCell: Costmap2D::setCost(mx, my, FREE_SPACE)
clearRobotCell(cm, mx, my) ==
  [cm EXCEPT !.costs = [@ EXCEPT ![my * cm.size_x + mx] = FREE_SPACE]]

(***************************************************************************)
(* The NavFn solver: nx, ny and the potential array potarr, addressed by   *)
(* the linear index y * nx + x.                                            *)
(***************************************************************************)
NavFn(nx, ny) ==
  [nx |-> nx, ny |-> ny, potarr |-> [i \in 0 .. nx * ny - 1 |-> POT_HIGH]]

\* NavFn::setNavArr: the storage is reallocated when the dimensions differ
setNavArr(nav, nx, ny) ==
  IF nav.nx = nx /\ nav.ny = ny THEN nav ELSE NavFn(nx, ny)

\* may the wavefront enter a cell of this cost
Traversable(cost, allow_unknown) ==
  CASE cost = LETHAL_OBSTACLE -> FALSE
    [] cost = NO_INFORMATION -> allow_unknown
    [] OTHER -> TRUE

\* the 4-connected neighbours of cell i of an nx * ny grid
Neighbours(i, nx, ny) ==
  {j \in 0 .. nx * ny - 1 :
     \/ (j \div nx) = (i \div nx) /\ Abs((j % nx) - (i % nx)) = 1
     \/ (j % nx) = (i % nx) /\ Abs((j \div nx) - (i \div nx)) = 1}

Min(S) == CHOOSE m \in S : \A n \in S : m <= n

\* one sweep of relaxation: a cell takes the lowest settled neighbour + 1
RelaxOnce(pot, costs, nx, ny, source, allow_unknown) ==
  [i \in DOMAIN pot |->
     IF i = source THEN 0
     ELSE IF ~Traversable(costs[i], allow_unknown) THEN POT_HIGH
     ELSE LET cand == {pot[j] + 1 : j \in {k \in Neighbours(i, nx, ny) :
                                             pot[k] < POT_HIGH}}
          IN  Min(cand \cup {pot[i]})]

RECURSIVE Relax(_, _, _, _, _, _)
Relax(pot, costs, nx, ny, source, allow_unknown) ==
  LET next == RelaxOnce(pot, costs, nx, ny, source, allow_unknown)
  IN  IF next = pot THEN pot
      ELSE Relax(next, costs, nx, ny, source, allow_unknown)

\* NavFn::calcNavFnDijkstra: the field of the whole reachable grid; a
\* source on an impassable cell is reachable from itself only
propagateUniform(nav, costs, source, allow_unknown) ==
  LET unreached == [i \in 0 .. nav.nx * nav.ny - 1 |-> POT_HIGH]
  IN  [nav EXCEPT !.potarr =
         IF Traversable(costs[source], allow_unknown)
         THEN Relax(unreached, costs, nav.nx, nav.ny, source, allow_unknown)
         ELSE [unreached EXCEPT ![source] = 0]]

\* NavFn::calcNavFnAstar: expansion stops once the target is settled; the
\* cells whose priority (potential + grid distance to the target) exceeds
\* the target's potential are never reached and keep POT_HIGH
propagateHeuristic(nav, costs, source, target, allow_unknown) ==
  LET full == propagateUniform(nav, costs, source, allow_unknown).potarr
      h(i) == Abs((i % nav.nx) - (target % nav.nx))
              + Abs((i \div nav.nx) - (target \div nav.nx))
  IN  [nav EXCEPT !.potarr =
         [i \in DOMAIN full |->
            IF full[target] < POT_HIGH /\ full[i] + h(i) > full[target]
            THEN POT_HIGH ELSE full[i]]]

\* the branch on use_astar_ : calcNavFnAstar or calcNavFnDijkstra
propagate(nav, costs, source, target, use_astar, allow_unknown) ==
  IF use_astar
  THEN propagateHeuristic(nav, costs, source, target, allow_unknown)
  ELSE propagateUniform(nav, costs, source, allow_unknown)

(***************************************************************************)
(* NavfnPlanner::makePlan                                                  *)
(***************************************************************************)
\* static_cast<size_t>(path_length / resolution): the largest n with
\* n * resolution <= sqrt(d2), d2 the squared distance of start and goal
RECURSIVE NumberOfPointsFrom(_, _, _)
NumberOfPointsFrom(n, d2, res) ==
  IF RatLeq(Q((n + 1) * (n + 1) * res * res), d2)
  THEN NumberOfPointsFrom(n + 1, d2, res)
  ELSE n

number_of_points(start, goal, res) ==
  NumberOfPointsFrom(0, squared_distance(start, goal), res)

\* a / n for a whole number n > 0
RatDivInt(a, n) == Rat(a[1], a[2] * n)

\* the waypoints start + i * diff, i < number_of_points, then the goal
StraightLine(start, goal, n) ==
  LET x_diff == RatDivInt(RatSub(goal.x, start.x), n)
      y_diff == RatDivInt(RatSub(goal.y, start.y), n)
  IN  [i \in 1 .. n + 1 |->
         IF i = n + 1 THEN goal
         ELSE Point(RatAdd(start.x, RatMul(Q(i - 1), x_diff)),
                    RatAdd(start.y, RatMul(Q(i - 1), y_diff)))]

\* makePlan without the clearing of the caller's path on entry
makePlan_keepsPoses(cm, nav, start, goal, tolerance, plan_in, use_astar, allow_unknown) ==
  LET s == worldToMap(cm, start.x, start.y)
      cm1 == clearRobotCell(cm, s.mx, s.my)
      nav1 == setNavArr(nav, cm.size_x, cm.size_y)
      g == worldToMap(cm, goal.x, goal.y)
      nav2 == propagate(nav1, cm1.costs, s.my * cm.size_x + s.mx,
                        g.my * cm.size_x + g.mx, use_astar, allow_unknown)
      plan == plan_in \o StraightLine(start, goal,
                           number_of_points(start, goal, cm.resolution))
  IN  IF ~s.ok
      THEN [ret |-> FALSE, plan |-> plan_in, costmap |-> cm, nav |-> nav]
      ELSE IF ~g.ok
      THEN [ret |-> FALSE, plan |-> plan_in, costmap |-> cm1, nav |-> nav1]
      ELSE [ret |-> plan # << >>, plan |-> plan, costmap |-> cm1, nav |-> nav2]

\* the result of makePlan: its return value, the plan it leaves in the
\* caller's path, and the costmap and solver as it leaves them
makePlan(cm, nav, start, goal, tolerance, plan_in, use_astar, allow_unknown) ==
  LET cleared == << >>                                     \* plan.poses.clear()
      s == worldToMap(cm, start.x, start.y)
      cm1 == clearRobotCell(cm, s.mx, s.my)
      nav1 == setNavArr(nav, cm.size_x, cm.size_y)
      g == worldToMap(cm, goal.x, goal.y)
      nav2 == propagate(nav1, cm1.costs, s.my * cm.size_x + s.mx,
                        g.my * cm.size_x + g.mx, use_astar, allow_unknown)
      plan == StraightLine(start, goal,
                           number_of_points(start, goal, cm.resolution))
  IN  IF ~s.ok
      THEN [ret |-> FALSE, plan |-> cleared, costmap |-> cm, nav |-> nav]
      ELSE IF ~g.ok
      THEN [ret |-> FALSE, plan |-> cleared, costmap |-> cm1, nav |-> nav1]
      ELSE [ret |-> plan # << >>, plan |-> plan, costmap |-> cm1, nav |-> nav2]

(***************************************************************************)
(* NavfnPlanner::smoothApproachToGoal.  second_to_last is plan.poses       *)
(* .end()[-2]; the caller supplies it, since a plan of one pose has none.  *)
(***************************************************************************)
\* smoothApproachToGoal replacing the last pose on equal distances too
smoothWith_snapOnTie(goal, plan, second_to_last) ==
  LET last_pose == plan[Len(plan)]
  IN  IF RatLeq(squared_distance(goal, second_to_last),
                squared_distance(last_pose, second_to_last))
      THEN [plan EXCEPT ![Len(plan)] = goal]
      ELSE Append(plan, goal)

smoothWith(goal, plan, second_to_last) ==
  LET last_pose == plan[Len(plan)]
  IN  IF RatLess(squared_distance(goal, second_to_last),
                 squared_distance(last_pose, second_to_last))
      THEN [plan EXCEPT ![Len(plan)] = goal]
      ELSE Append(plan, goal)

smoothApproachToGoal(goal, plan) ==
  smoothWith(goal, plan, plan[Len(plan) - 1])

(***************************************************************************)
(* NavfnPlanner::getPointPotential and validPointPotential.  garbage maps  *)
(* the indices past the end of potarr to what a read there yields.         *)
(***************************************************************************)
\* the array index getPointPotential reads for an on-grid point
potentialIndex(nav, m) == m.my * nav.nx + m.mx

getPointPotential(cm, nav, world_point, garbage) ==
  LET m == worldToMap(cm, world_point.x, world_point.y)
      index == potentialIndex(nav, m)
  IN  IF ~m.ok THEN DBL_MAX
      ELSE IF index \in DOMAIN nav.potarr THEN nav.potarr[index]
      ELSE garbage[index]

\* what one read of the potential array looks like: the cell asked for and
\* the dimensions of the array at that time
ReadOf(cm, nav, p) ==
  LET m == worldToMap(cm, p.x, p.y)
  IN  IF m.ok THEN {[mx |-> m.mx, my |-> m.my, nx |-> nav.nx, ny |-> nav.ny]}
      ELSE {}

\* the two nested while loops, resumed at the scan point p
RECURSIVE validScan(_, _, _, _, _, _, _)
validScan(cm, nav, world_point, tolerance, p, garbage, reads) ==
  IF ~RatLeq(p.y, RatAdd(world_point.y, tolerance))
  THEN [ret |-> FALSE, reads |-> reads]
  ELSE IF ~RatLeq(p.x, RatAdd(world_point.x, tolerance))
  THEN validScan(cm, nav, world_point, tolerance,
                 Point(RatSub(world_point.x, tolerance),
                       RatAdd(p.y, Q(cm.resolution))),
                 garbage, reads)
  ELSE IF getPointPotential(cm, nav, p, garbage) < POT_HIGH
  THEN [ret |-> TRUE, reads |-> reads \cup ReadOf(cm, nav, p)]
  ELSE validScan(cm, nav, world_point, tolerance,
                 Point(RatAdd(p.x, Q(cm.resolution)), p.y),
                 garbage, reads \cup ReadOf(cm, nav, p))

validPointPotential(cm, nav, world_point, tolerance, garbage) ==
  validScan(cm, nav, world_point, tolerance,
            Point(RatSub(world_point.x, tolerance),
                  RatSub(world_point.y, tolerance)),
            garbage, {})

\* the indices past the end of potarr that a read of an on-grid cell can hit
PastTheEnd(cm, nav) ==
  {i \in 0 .. (cm.size_y - 1) * nav.nx + cm.size_x - 1 :
     i \notin DOMAIN nav.potarr}

Garbage(cm, nav) == [PastTheEnd(cm, nav) -> {0, POT_HIGH}]

(***************************************************************************)
(* NavfnPlanner::computePotential: its return value and the solver after.  *)
(***************************************************************************)
computePotential(cm, nav, world_point, use_astar, allow_unknown) ==
  LET nav1 == setNavArr(nav, cm.size_x, cm.size_y)
      m == worldToMap(cm, world_point.x, world_point.y)
      nav2 == propagate(nav1, cm.costs, m.my * cm.size_x + m.mx, 0,
                        use_astar, allow_unknown)
  IN  IF ~m.ok THEN [ret |-> FALSE, nav |-> nav1]
      ELSE [ret |-> nav2.potarr[0] < POT_HIGH, nav |-> nav2]

(***************************************************************************)
(* The inputs the calls are tried on.                                      *)
(***************************************************************************)
Sizes == {sz \in (1 .. MaxX) \X (1 .. MaxY) : sz[1] * sz[2] <= MaxCells}
Origins == (-MaxOrigin) .. MaxOrigin
Tolerances == {0, 1, RES}

FreeCosts(sx, sy) == [i \in 0 .. sx * sy - 1 |-> FREE_SPACE]

CostGrids(sx, sy) ==
  {c \in [0 .. sx * sy - 1 -> {FREE_SPACE, LETHAL_OBSTACLE, NO_INFORMATION}] :
     Cardinality({i \in DOMAIN c : c[i] # FREE_SPACE}) <= MaxObstacles}

\* the first coordinate past the far edge of n cells from origin o
FarEdge(o, n, res) == o + n * res - (res \div 2)

\* along one axis: the lowest and the highest whole coordinate of every
\* cell, and the nearest off-grid coordinate on either side
EdgeCoords(o, n, res) ==
  {o - 1, o} \cup {FarEdge(o, k, res) : k \in 1 .. n}
             \cup {FarEdge(o, k, res) - 1 : k \in 1 .. n}

\* the points of the grid, and just off it, at those coordinates
EdgePoints(cm) ==
  {Point(Q(x), Q(y)) :
     x \in EdgeCoords(cm.origin_x, cm.size_x, cm.resolution),
     y \in EdgeCoords(cm.origin_y, cm.size_y, cm.resolution)}

\* every half-unit point of the grid, with a margin of off-grid points
HalfPoints(cm) ==
  {Point(Rat(x, 2), Rat(y, 2)) :
     x \in (2 * cm.origin_x - 2)
             .. (2 * FarEdge(cm.origin_x, cm.size_x, cm.resolution) + 2),
     y \in (2 * cm.origin_y - 2)
             .. (2 * FarEdge(cm.origin_y, cm.size_y, cm.resolution) + 2)}

\* the centres of the first and the last cell, and one point off the grid
CornerPoints(cm) ==
  {mapToWorld(cm, 0, 0), mapToWorld(cm, cm.size_x - 1, cm.size_y - 1),
   Point(Q(cm.origin_x - 1), Q(cm.origin_y))}

\* the poses a path handed to smoothApproachToGoal is made of
SmoothPoints == {Point(Q(x), Q(y)) : x \in 0 .. MaxCoord, y \in 0 .. 1}

(***************************************************************************)
(* Initial states.                                                         *)
(***************************************************************************)
NoCall == [op |-> "none"]

\* after the constructor: nothing configured, the costmap lives outside
Init ==
  /\ \E sz \in Sizes :
       costmap2d = Costmap(sz[1], sz[2], 0, 0, RES, FreeCosts(sz[1], sz[2]))
  /\ costmap_ = FALSE
  /\ tolerance_ = 0
  /\ use_astar_ = FALSE
  /\ allow_unknown_ = TRUE
  /\ planner_ = Null
  /\ call = NoCall
  /\ crashed = FALSE

\* a configured planner (default tolerance and strategy) over a costmap the
\* provider has filled in, and the plan request about to be made of it, with
\* a path that still holds a pose
InitPlan ==
  /\ \E sz \in Sizes : \E c \in CostGrids(sz[1], sz[2]) :
       /\ costmap2d = Costmap(sz[1], sz[2], 0, 0, RES, c)
       /\ planner_ = NavFn(sz[1], sz[2])
  /\ costmap_ = TRUE
  /\ tolerance_ = 0
  /\ use_astar_ = FALSE
  /\ allow_unknown_ \in BOOLEAN
  /\ \E start \in EdgePoints(costmap2d), goal \in EdgePoints(costmap2d) :
       call = [op |-> "request", start |-> start, goal |-> goal,
               tolerance |-> tolerance_, plan_in |-> <<goal>>]
  /\ crashed = FALSE

\* a configured planner over a free costmap of any geometry, and the world
\* point about to be mapped
InitCoord ==
  /\ \E sz \in Sizes : \E ox \in Origins, oy \in Origins :
       /\ costmap2d = Costmap(sz[1], sz[2], ox, oy, RES, FreeCosts(sz[1], sz[2]))
       /\ planner_ = NavFn(sz[1], sz[2])
  /\ costmap_ = TRUE
  /\ tolerance_ = 0
  /\ use_astar_ = FALSE
  /\ allow_unknown_ = TRUE
  /\ \E p \in HalfPoints(costmap2d) : call = [op |-> "point", wx |-> p.x, wy |-> p.y]
  /\ crashed = FALSE

\* a configured planner and a path of one or two poses
InitSmooth ==
  /\ costmap2d = Costmap(1, 1, 0, 0, RES, FreeCosts(1, 1))
  /\ planner_ = NavFn(1, 1)
  /\ costmap_ = TRUE
  /\ tolerance_ = 0
  /\ use_astar_ = FALSE
  /\ allow_unknown_ = TRUE
  /\ \E p \in SmoothPoints, q \in SmoothPoints :
       call \in {[op |-> "path", plan |-> <<p>>], [op |-> "path", plan |-> <<p, q>>]}
  /\ crashed = FALSE

(***************************************************************************)
(* The operations.  A call through a null planner_ or costmap_ is          *)
(* undefined behaviour: the process is terminated, or the call returns     *)
(* with whatever it finds.  activate, deactivate and the destructor only   *)
(* log and change nothing.                                                 *)
(***************************************************************************)
Unconfigured == ~costmap_ \/ planner_ = Null

\* NavfnPlanner::configure; the node's parameters are read anew each time
\* (allow_unknown keeps its default: this costmap has no unknown cell)
Configure ==
  /\ ~crashed
  /\ \E tol \in {0, RES}, astar \in BOOLEAN :
       /\ tolerance_' = tol
       /\ use_astar_' = astar
       /\ allow_unknown_' = TRUE
  /\ costmap_' = TRUE
  /\ planner_' = NavFn(costmap2d.size_x, costmap2d.size_y)
  /\ call' = [op |-> "configure"]
  /\ UNCHANGED <<costmap2d, crashed>>

\* NavfnPlanner::cleanup; node_ is null until configure has run
Cleanup ==
  /\ ~crashed
  /\ call' = [op |-> "cleanup"]
  /\ IF costmap_
     THEN planner_' = Null /\ crashed' = FALSE
     ELSE planner_' = planner_ /\ crashed' \in BOOLEAN
  /\ UNCHANGED <<costmap2d, costmap_, tolerance_, use_astar_, allow_unknown_>>

\* the costmap provider resizes the grid (Costmap2D::resizeMap)
ResizeCostmap ==
  /\ ~crashed
  /\ \E sz \in Sizes :
       /\ <<costmap2d.size_x, costmap2d.size_y>> # sz
       /\ costmap2d' = Costmap(sz[1], sz[2], costmap2d.origin_x,
                               costmap2d.origin_y, costmap2d.resolution,
                               FreeCosts(sz[1], sz[2]))
  /\ call' = [op |-> "resizeMap"]
  /\ UNCHANGED <<costmap_, tolerance_, use_astar_, allow_unknown_, planner_,
                 crashed>>

\* NavfnPlanner::isPlannerOutOfDate
isPlannerOutOfDate ==
  \/ planner_ = Null
  \/ planner_.nx # costmap2d.size_x
  \/ planner_.ny # costmap2d.size_y

PlanCall(op, start, goal, tolerance, plan_in, solver, fault, ret, plan) ==
  [op |-> op, start |-> start, goal |-> goal, tolerance |-> tolerance,
   plan_in |-> plan_in, solver |-> solver, fault |-> fault, ret |-> ret,
   plan |-> plan]

\* NavfnPlanner::createPlan
CreatePlan(points) ==
  /\ ~crashed
  /\ \E start \in points, goal \in points :
       IF Unconfigured
       THEN \* planner_->setNavArr(...) on the null planner_
            /\ \E out \in {<< >>, <<goal>>} :
                 call' = PlanCall("createPlan", start, goal, tolerance_, << >>,
                                  FALSE, TRUE, out # << >>, out)
            /\ crashed' \in BOOLEAN
            /\ UNCHANGED <<costmap2d, planner_>>
       ELSE LET nav == IF isPlannerOutOfDate
                       THEN setNavArr(planner_, costmap2d.size_x, costmap2d.size_y)
                       ELSE planner_
                r == makePlan(costmap2d, nav, start, goal, tolerance_, << >>,
                              use_astar_, allow_unknown_)
            IN  /\ call' = PlanCall("createPlan", start, goal, tolerance_, << >>,
                                    TRUE, FALSE, r.ret, r.plan)
                /\ costmap2d' = r.costmap
                /\ planner_' = r.nav
                /\ crashed' = FALSE
  /\ UNCHANGED <<costmap_, tolerance_, use_astar_, allow_unknown_>>

\* NavfnPlanner::makePlan, serving the pending request
MakePlan ==
  /\ ~crashed
  /\ ~Unconfigured
  /\ call.op = "request"
  /\ LET r == makePlan(costmap2d, planner_, call.start, call.goal,
                       call.tolerance, call.plan_in, use_astar_, allow_unknown_)
     IN  /\ call' = PlanCall("makePlan", call.start, call.goal, call.tolerance,
                             call.plan_in, TRUE, FALSE, r.ret, r.plan)
         /\ costmap2d' = r.costmap
         /\ planner_' = r.nav
  /\ UNCHANGED <<costmap_, tolerance_, use_astar_, allow_unknown_, crashed>>

\* NavfnPlanner::computePotential
ComputePotential(points) ==
  /\ ~crashed
  /\ \E world_point \in points :
       IF Unconfigured
       THEN /\ call' = [op |-> "computePotential", world_point |-> world_point,
                        fault |-> TRUE, ret |-> FALSE]
            /\ crashed' \in BOOLEAN
            /\ planner_' = planner_
       ELSE LET r == computePotential(costmap2d, planner_, world_point,
                                      use_astar_, allow_unknown_)
            IN  /\ call' = [op |-> "computePotential",
                            world_point |-> world_point, fault |-> FALSE,
                            ret |-> r.ret]
                /\ planner_' = r.nav
                /\ crashed' = FALSE
  /\ UNCHANGED <<costmap2d, costmap_, tolerance_, use_astar_, allow_unknown_>>

PointCall(op, world_point, tolerance, fault, ret, reads) ==
  [op |-> op, world_point |-> world_point, tolerance |-> tolerance,
   fault |-> fault, ret |-> ret, reads |-> reads]

\* a read past the end of potarr may also end the process
MayCrash(reads) ==
  {FALSE} \cup {TRUE : r \in {q \in reads : q.my * q.nx + q.mx >= q.nx * q.ny}}

\* does the tolerance scan of this point reach a point on the grid
ScanTouchesGrid(cm, world_point, tolerance) ==
  validPointPotential(cm, NavFn(cm.size_x, cm.size_y), world_point, tolerance,
                      [i \in {} |-> POT_HIGH]).reads # {}

\* NavfnPlanner::getPointPotential; planner_ is used for on-grid points only
GetPointPotential(points) ==
  /\ ~crashed
  /\ \E world_point \in points :
       IF ~costmap_
          \/ (planner_ = Null
              /\ worldToMap(costmap2d, world_point.x, world_point.y).ok)
       THEN /\ call' = PointCall("getPointPotential", world_point, 0, TRUE,
                                 DBL_MAX, {})
            /\ crashed' \in BOOLEAN
       ELSE IF planner_ = Null
       THEN /\ call' = PointCall("getPointPotential", world_point, 0, FALSE,
                                 DBL_MAX, {})
            /\ crashed' = FALSE
       ELSE \E garbage \in Garbage(costmap2d, planner_) :
              LET reads == ReadOf(costmap2d, planner_, world_point)
              IN  /\ call' = PointCall("getPointPotential", world_point, 0, FALSE,
                                       getPointPotential(costmap2d, planner_,
                                                         world_point, garbage),
                                       reads)
                  /\ crashed' \in MayCrash(reads)
  /\ UNCHANGED <<costmap2d, costmap_, tolerance_, use_astar_, allow_unknown_,
                 planner_>>

\* NavfnPlanner::validPointPotential(world_point, tolerance); planner_ is
\* used for the scan points that are on the grid only
ValidPointPotential(points, tolerances) ==
  /\ ~crashed
  /\ \E world_point \in points, tolerance \in tolerances :
       IF ~costmap_
          \/ (planner_ = Null
              /\ ScanTouchesGrid(costmap2d, world_point, Q(tolerance)))
       THEN /\ call' = PointCall("validPointPotential", world_point, tolerance,
                                 TRUE, FALSE, {})
            /\ crashed' \in BOOLEAN
       ELSE IF planner_ = Null
       THEN /\ call' = PointCall("validPointPotential", world_point, tolerance,
                                 FALSE, FALSE, {})
            /\ crashed' = FALSE
       ELSE \E garbage \in Garbage(costmap2d, planner_) :
              LET r == validPointPotential(costmap2d, planner_, world_point,
                                           Q(tolerance), garbage)
              IN  /\ call' = PointCall("validPointPotential", world_point,
                                       tolerance, FALSE, r.ret, r.reads)
                  /\ crashed' \in MayCrash(r.reads)
  /\ UNCHANGED <<costmap2d, costmap_, tolerance_, use_astar_, allow_unknown_,
                 planner_>>

\* NavfnPlanner::worldToMap, called on the pending world point
WorldToMap ==
  /\ call.op = "point"
  /\ call' = [op |-> "worldToMap", wx |-> call.wx, wy |-> call.wy,
              out |-> worldToMap(costmap2d, call.wx, call.wy)]
  /\ UNCHANGED <<costmap2d, costmap_, tolerance_, use_astar_, allow_unknown_,
                 planner_, crashed>>

\* NavfnPlanner::mapToWorld, called on the cell worldToMap has just returned
MapToWorld ==
  /\ call.op = "worldToMap"
  /\ call.out.ok
  /\ call' = [op |-> "mapToWorld", wx |-> call.wx, wy |-> call.wy,
              mx |-> call.out.mx, my |-> call.out.my,
              out |-> mapToWorld(costmap2d, call.out.mx, call.out.my)]
  /\ UNCHANGED <<costmap2d, costmap_, tolerance_, use_astar_, allow_unknown_,
                 planner_, crashed>>

\* NavfnPlanner::smoothApproachToGoal, called on the path it last produced;
\* on a path of one pose end()[-2] lies before the array: any pose, or a fault
SmoothApproachToGoal ==
  /\ ~crashed
  /\ call.op \in {"path", "smoothApproachToGoal"}
  /\ Len(call.plan) < MaxPlanLen
  /\ \E goal \in SmoothPoints :
       IF Len(call.plan) >= 2
       THEN /\ call' = [op |-> "smoothApproachToGoal", goal |-> goal,
                        plan_in |-> call.plan,
                        plan |-> smoothApproachToGoal(goal, call.plan)]
            /\ crashed' = FALSE
       ELSE \E stray \in SmoothPoints :
              /\ call' = [op |-> "smoothApproachToGoal", goal |-> goal,
                          plan_in |-> call.plan,
                          plan |-> smoothWith(goal, call.plan, stray)]
              /\ crashed' \in BOOLEAN
  /\ UNCHANGED <<costmap2d, costmap_, tolerance_, use_astar_, allow_unknown_,
                 planner_>>

(***************************************************************************)
(* Specifications.                                                         *)
(***************************************************************************)
\* the lifecycle of the plugin and its calls, on a free costmap
Next ==
  \/ Configure
  \/ Cleanup
  \/ ResizeCostmap
  \/ CreatePlan(CornerPoints(costmap2d))
  \/ ComputePotential(CornerPoints(costmap2d))
  \/ GetPointPotential(CornerPoints(costmap2d))
  \/ ValidPointPotential(CornerPoints(costmap2d), Tolerances)

Spec == Init /\ [][Next]_vars

\* one plan request on a configured planner, over every cost grid
NextPlan == MakePlan

SpecPlan == InitPlan /\ [][NextPlan]_vars

\* the coordinate mapping, over every geometry
NextCoord ==
  \/ WorldToMap
  \/ MapToWorld

SpecCoord == InitCoord /\ [][NextCoord]_vars

\* the smoothing of the end of a path
NextSmooth == SmoothApproachToGoal

SpecSmooth == InitSmooth /\ [][NextSmooth]_vars

(***************************************************************************)
(* Properties.                                                             *)
(***************************************************************************)
IsPlanCall == call.op \in {"makePlan", "createPlan"} /\ call.solver /\ ~call.fault
OnGrid(p) == worldToMap(costmap2d, p.x, p.y).ok
CellOf(p) ==
  LET m == worldToMap(costmap2d, p.x, p.y) IN m.my * costmap2d.size_x + m.mx
NoGarbage == [i \in {} |-> POT_HIGH]

\* C1: for on-grid start and goal, no waypoint of the path a plan request
\* returns lies in a lethal cell (the path goes round the obstacles).
C1_PathAvoidsLethalCells ==
  (IsPlanCall /\ OnGrid(call.start) /\ OnGrid(call.goal))
    => \A i \in DOMAIN call.plan :
         OnGrid(call.plan[i])
           => costmap2d.costs[CellOf(call.plan[i])] # LETHAL_OBSTACLE

\* C2: with start and goal on the grid, if after propagation no scan point
\* of the goal's tolerance neighbourhood has a potential below POT_HIGH,
\* makePlan returns false and the path is empty.
C2_UnreachableGoalFails ==
  (/\ IsPlanCall
   /\ OnGrid(call.start)
   /\ OnGrid(call.goal)
   /\ ~validPointPotential(costmap2d, planner_, call.goal, Q(call.tolerance),
                           NoGarbage).ret)
    => (call.ret = FALSE /\ call.plan = << >>)

\* C3: createPlan on an unconfigured planner (no solver) fails recoverably:
\* it never goes through the missing solver, the process lives on and the
\* path returned is empty.
C3_UnconfiguredPlanFailsSafely ==
  (call.op = "createPlan" /\ ~call.solver)
    => (~call.fault /\ ~crashed /\ call.plan = << >>)

\* C4: if the start or the goal is off the grid, makePlan returns false and
\* the path is empty, whatever the path held on entry.
C4_OffGridFailsWithEmptyPath ==
  (call.op = "makePlan" /\ (~OnGrid(call.start) \/ ~OnGrid(call.goal)))
    => (call.ret = FALSE /\ call.plan = << >>)

\* C4 witness: the goal is off the grid, the path came in with a pose, and
\* makePlan has returned false with the path emptied.
C4_Witness ==
  /\ call.op = "makePlan"
  /\ OnGrid(call.start)
  /\ ~OnGrid(call.goal)
  /\ call.plan_in # << >>
  /\ call.ret = FALSE
  /\ call.plan = << >>

\* the cell whose centre is nearest to w (the upper one of two), w >= o
NearestCell(w, o, res) ==
  CHOOSE k \in 0 .. (MaxX + MaxY + 2) :
    /\ (2 * k - 1) * res * w[2] <= 2 * (w[1] - o * w[2])
    /\ 2 * (w[1] - o * w[2]) < (2 * k + 1) * res * w[2]

\* C5: worldToMap fails exactly when wx < origin.x, wy < origin.y or a
\* rounded coordinate is not below the grid's size; when it succeeds it
\* returns the rounded coordinates, unclamped and inside the grid.
C5_WorldToMapExact ==
  call.op = "worldToMap"
    => LET cm == costmap2d
           below == RatLess(call.wx, Q(cm.origin_x))
                    \/ RatLess(call.wy, Q(cm.origin_y))
           rx == NearestCell(call.wx, cm.origin_x, cm.resolution)
           ry == NearestCell(call.wy, cm.origin_y, cm.resolution)
       IN  /\ call.out.ok = ~(below \/ rx >= cm.size_x \/ ry >= cm.size_y)
           /\ call.out.ok
                => /\ call.out.mx = rx
                   /\ call.out.my = ry
                   /\ 0 <= call.out.mx /\ call.out.mx < cm.size_x
                   /\ 0 <= call.out.my /\ call.out.my < cm.size_y

\* C5 witness: worldToMap has succeeded on a point half a cell past a cell
\* centre, which rounds up to the next cell.
C5_Witness ==
  /\ call.op = "worldToMap"
  /\ call.out.ok
  /\ call.out.mx > 0
  /\ 2 * (call.wx[1] - costmap2d.origin_x * call.wx[2])
       = (2 * call.out.mx - 1) * costmap2d.resolution * call.wx[2]

\* |a - b| <= res / 2
WithinHalfCell(a, b, res) ==
  /\ RatLeq(RatMul(Q(2), RatSub(a, b)), Q(res))
  /\ RatLeq(RatMul(Q(2), RatSub(b, a)), Q(res))

\* C6: mapToWorld(worldToMap(p)) is within half a cell of p on each axis.
C6_RoundTripWithinHalfCell ==
  call.op = "mapToWorld"
    => /\ WithinHalfCell(call.out.x, call.wx, costmap2d.resolution)
       /\ WithinHalfCell(call.out.y, call.wy, costmap2d.resolution)

\* C6 witness: a round trip has moved a point by exactly half a cell in x.
C6_Witness ==
  /\ call.op = "mapToWorld"
  /\ RatMul(Q(2), RatSub(call.out.x, call.wx)) = Q(costmap2d.resolution)

\* C7: when start and goal lie in the same on-grid cell, makePlan returns
\* true with a path of exactly one waypoint, or of zero length.
C7_SameCellGivesOneWaypoint ==
  (/\ IsPlanCall
   /\ OnGrid(call.start)
   /\ OnGrid(call.goal)
   /\ CellOf(call.start) = CellOf(call.goal))
    => /\ call.ret = TRUE
       /\ \/ Len(call.plan) = 1
          \/ /\ call.plan # << >>
             /\ \A i \in DOMAIN call.plan : call.plan[i] = call.plan[1]

IsSmoothCall == call.op = "smoothApproachToGoal" /\ Len(call.plan_in) >= 2
SecondToLast == call.plan_in[Len(call.plan_in) - 1]
Last == call.plan_in[Len(call.plan_in)]
Snapped == [call.plan_in EXCEPT ![Len(call.plan_in)] = call.goal]

\* C8 as stated: the last waypoint is replaced by the goal when the goal is
\* no farther from the second-to-last waypoint than the last one is, else
\* the goal is appended; a path already ending in the goal is left as it is.
C8_SnapWhenNotFarther ==
  IsSmoothCall
    => /\ IF RatLeq(squared_distance(call.goal, SecondToLast),
                    squared_distance(Last, SecondToLast))
          THEN call.plan = Snapped
          ELSE call.plan = Append(call.plan_in, call.goal)
       /\ Last = call.goal => call.plan = call.plan_in

\* C8 amended: the last waypoint is replaced by the goal only when the goal
\* is strictly nearer to the second-to-last waypoint than the last one is;
\* otherwise (equal distances too) the goal is appended, so a path already
\* ending in the goal comes back one waypoint longer, the goal twice.
C8_SnapWhenStrictlyNearer ==
  IsSmoothCall
    => /\ IF RatLess(squared_distance(call.goal, SecondToLast),
                     squared_distance(Last, SecondToLast))
          THEN call.plan = Snapped
          ELSE call.plan = Append(call.plan_in, call.goal)
       /\ Last = call.goal
            => /\ Len(call.plan) = Len(call.plan_in) + 1
               /\ call.plan = Append(call.plan_in, call.goal)

\* C8 witness: a path of two poses or more that already ends in the goal
\* has been smoothed, and the goal has been appended to it.
C8_Witness ==
  /\ IsSmoothCall
  /\ Last = call.goal
  /\ call.plan = Append(call.plan_in, call.goal)

\* C9: every read of the potential array asks for a cell inside the
\* solver's current nx * ny array.
C9_ReadsInsideSolverArray ==
  (call.op \in {"getPointPotential", "validPointPotential"} /\ ~call.fault)
    => \A r \in call.reads : r.mx < r.nx /\ r.my < r.ny

\* C10: for an on-grid point and a tolerance >= 0, if the point's own cell
\* has a potential below POT_HIGH then validPointPotential returns true.
C10_OwnCellValidMeansValid ==
  (/\ call.op = "validPointPotential"
   /\ ~call.fault
   /\ call.tolerance >= 0
   /\ planner_ # Null
   /\ planner_.nx = costmap2d.size_x
   /\ planner_.ny = costmap2d.size_y
   /\ OnGrid(call.world_point)
   /\ planner_.potarr[CellOf(call.world_point)] < POT_HIGH)
    => call.ret = TRUE

====
